---- MODULE Spec2Model ----
(***************************************************************************)
(* A model of src/src/automata.py: load_automata, process and              *)
(* convert_to_dfa.                                                         *)
(*                                                                         *)
(* A token (a state name, an alphabet symbol) is a sequence of characters, *)
(* a character is a one-character string, a word is a sequence of          *)
(* characters.  A file is the sequence of its stripped lines, and a line   *)
(* is the sequence of the tokens str.split() finds in it.                  *)
(***************************************************************************)
EXTENDS Integers, Sequences, FiniteSets, TLC

VARIABLES
    lines,              \* load_automata: the stripped lines of the file
    pc,                 \* where the program is
    error,              \* the message of the ValueError raised, "" when none
    states,             \* the automaton load_automata returned
    alphabet,
    delta,
    initial_state,
    final_states,
    state,              \* handle_closure: the state it was called with
    closure,            \* epsilon_closure, handle_closure: the set being built
    stack,              \* epsilon_closure, handle_closure: the states to explore
    initial_closure,    \* convert_to_dfa locals
    queue,
    visited,
    new_states,
    new_delta,
    new_final_states,
    new_initial_state,
    current_closure,
    sym_idx,            \* position of `for symbol in alphabet`
    automaton,          \* process: the automaton it was called with
    words,              \* process: the list of words
    word_idx,           \* position of `for word in words`
    char_idx,           \* position of `for symbol in word`
    current_state,
    valid,
    results

autoVars == <<states, alphabet, delta, initial_state, final_states>>
convVars == <<closure, stack, initial_closure, queue, visited, new_states,
              new_delta, new_final_states, new_initial_state, current_closure,
              sym_idx>>
procVars == <<automaton, words, word_idx, char_idx, current_state, valid,
              results>>
vars == <<lines, pc, error, autoVars, state, convVars, procVars>>

----------------------------------------------------------------------------
(* Bounds of the model.                                                    *)

MaxTrans == 2
MaxAlpha == 2
MaxWordLen == 2
MaxWords == 2
MaxSeedTrans == 3

----------------------------------------------------------------------------
(* Strings.                                                                *)

Range(s) == {s[i] : i \in DOMAIN s}

SeqsUpTo(S, n) == UNION {[1..k -> S] : k \in 0..n}

\* The code point of a character (Python compares strings by code point).
CharCode(c) ==
    CASE c = " " -> 32
      [] c = "&" -> 38
      [] c = "," -> 44
      [] c = "a" -> 97
      [] c = "b" -> 98
      [] c = "p" -> 112
      [] c = "q" -> 113

\* s < t for Python strings.
StrLess(s, t) ==
    \E i \in 1..(Len(t)) :
        /\ i <= Len(s) + 1
        /\ \A j \in 1..(i - 1) : s[j] = t[j]
        /\ \/ i = Len(s) + 1
           \/ CharCode(s[i]) < CharCode(t[i])

\* sorted(state_set): the members in increasing order.
RECURSIVE sorted(_)
sorted(S) ==
    IF S = {} THEN <<>>
    ELSE LET m == CHOOSE x \in S : \A y \in S \ {x} : StrLess(x, y)
         IN  <<m>> \o sorted(S \ {m})

\* sep.join(parts)
RECURSIVE join(_, _)
join(sep, parts) ==
    IF Len(parts) = 0 THEN <<>>
    ELSE IF Len(parts) = 1 THEN parts[1]
    ELSE parts[1] \o sep \o join(sep, Tail(parts))

\* Only one member of the set, whichever comes first, is listed.
FirstOf(S) == IF S = {} THEN {<<>>} ELSE {<<x>> : x \in S}

\* The orders in which a Python set may be iterated: every one of them.
Orders(S) ==
    {s \in [1..Cardinality(S) -> S] : \A i, j \in DOMAIN s : i # j => s[i] # s[j]}

----------------------------------------------------------------------------
(* load_automata.                                                          *)

\* `if len(lines) < 5`
MinLines == 5

\* The stripped line itself (lines[3] is not split): its tokens with the
\* white space between them.
RawLine(line) == join(<<" ">>, line)

Raised(msg) ==
    [raised |-> msg, states |-> <<>>, alphabet |-> <<>>, transitions |-> <<>>,
     initial_state |-> <<>>, final_states |-> <<>>]

\* Only the origin is tested.
BadTransitionOrigin(t, sts) == t[1] \notin Range(sts)

\* `origin not in states or destination not in states`
BadTransitionState(t, sts) == t[1] \notin Range(sts) \/ t[3] \notin Range(sts)

\* `symbol != '&' and symbol not in alphabet`
BadTransitionSymbol(t, alph) == t[2] # <<"&">> /\ t[2] \notin Range(alph)

\* The validation of the header: final states, then the initial state.
HeaderError(sts, fin, init) ==
    IF ~(Range(fin) \subseteq Range(sts)) THEN "Estado final invalido."
    ELSE IF init \notin Range(sts) THEN "Estado inicial invalido."
    ELSE ""

\* The validation loop over the transitions: the message of the first
\* transition that fails a test, "" when none does.
TransitionError(trs, sts, alph) ==
    LET bad == {i \in DOMAIN trs : \/ BadTransitionState(trs[i], sts)
                                   \/ BadTransitionSymbol(trs[i], alph)}
    IN  IF bad = {} THEN ""
        ELSE LET i == CHOOSE k \in bad : \A m \in bad : k <= m
             IN  IF BadTransitionState(trs[i], sts)
                 THEN "Estado na transicao invalido"
                 ELSE "Simbolo na transicao invalido"

\* What load_automata does with a file of these lines: the tuple it returns,
\* or the ValueError it raises.
load_automata(ls) ==
    IF Len(ls) < MinLines
    THEN Raised("Arquivo invalido: numero insuficiente de linhas.")
    ELSE LET alph == ls[1]
             sts  == ls[2]
             fin  == ls[3]
             init == RawLine(ls[4])
             rest == SubSeq(ls, 5, Len(ls))
         IN  IF \E i \in DOMAIN rest : Len(rest[i]) # 3
             THEN Raised("unpack")    \* origin, symbol, destination = line.split()
             ELSE IF HeaderError(sts, fin, init) # ""
             THEN Raised(HeaderError(sts, fin, init))
             ELSE IF TransitionError(rest, sts, alph) # ""
             THEN Raised(TransitionError(rest, sts, alph))
             ELSE [raised |-> "", states |-> sts, alphabet |-> alph,
                   transitions |-> rest, initial_state |-> init,
                   final_states |-> fin]

Load ==
    /\ pc = "file"
    /\ LET r == load_automata(lines)
       IN  /\ pc' = IF r.raised = "" THEN "loaded" ELSE "raised"
           /\ error' = r.raised
           /\ states' = r.states
           /\ alphabet' = r.alphabet
           /\ delta' = r.transitions
           /\ initial_state' = r.initial_state
           /\ final_states' = r.final_states
    /\ UNCHANGED <<lines, state, convVars, procVars>>

----------------------------------------------------------------------------
(* handle_closure.                                                         *)

\* `dest for origin, sym, dest in delta if origin == current and sym == '&'
\*       and dest not in closure`, from transition i on: the destinations in
\* list order, tested against the closure as it is when they are drawn.
RECURSIVE Fresh(_, _, _)
Fresh(current, i, cl) ==
    IF i > Len(delta) THEN <<>>
    ELSE IF delta[i][1] = current /\ delta[i][2] = <<"&">> /\ delta[i][3] \notin cl
         THEN <<delta[i][3]>> \o Fresh(current, i + 1, cl)
         ELSE Fresh(current, i + 1, cl)

\* handle_closure(s, delta) is called on a state of the automaton.
HandleClosureCall ==
    /\ pc = "loaded"
    /\ \E s \in Range(states) :
           /\ state' = s
           /\ closure' = {s}
           /\ stack' = <<s>>
    /\ pc' = "handle_closure"
    /\ UNCHANGED <<lines, error, autoVars, initial_closure, queue, visited,
                   new_states, new_delta, new_final_states, new_initial_state,
                   current_closure, sym_idx, procVars>>

\* One turn of `while stack:`: closure.update(...) and then stack.extend(...),
\* whose test reads the closure just updated.
HandleClosureStep ==
    /\ pc = "handle_closure"
    /\ stack # <<>>
    /\ LET current == stack[Len(stack)]
           updated == closure \cup Range(Fresh(current, 1, closure))
       IN  /\ closure' = updated
           /\ stack' = SubSeq(stack, 1, Len(stack) - 1) \o Fresh(current, 1, updated)
    /\ UNCHANGED <<lines, pc, state, error, autoVars, initial_closure, queue,
                   visited, new_states, new_delta, new_final_states,
                   new_initial_state, current_closure, sym_idx, procVars>>

\* `return closure`
HandleClosureReturn ==
    /\ pc = "handle_closure"
    /\ stack = <<>>
    /\ pc' = "closed"
    /\ UNCHANGED <<lines, state, error, autoVars, convVars, procVars>>

HandleClosure ==
    \/ HandleClosureCall
    \/ HandleClosureStep
    \/ HandleClosureReturn

----------------------------------------------------------------------------
(* convert_to_dfa.                                                         *)

\* The transitions are followed on any symbol.
find_any_transitions(states_set, symbol) ==
    {delta[i][3] : i \in {k \in DOMAIN delta : delta[k][1] \in states_set}}

\* `{dest for state in states_set for origin, sym, dest in delta
\*        if origin == state and sym == symbol}`
find_transitions(states_set, symbol) ==
    {delta[i][3] : i \in {k \in DOMAIN delta : /\ delta[k][1] \in states_set
                                               /\ delta[k][2] = symbol}}

\* `','.join(sorted(state_set))`
state_to_str(state_set) == join(<<",">>, sorted(state_set))

\* `dest not in closure` in epsilon_closure's loop
Unseen(dest, cl) == dest \notin cl

\* The destinations are added to the closure and never pushed.
RECURSIVE ScanDeltaOnce(_, _, _, _)
ScanDeltaOnce(cur, i, cl, st) ==
    IF i > Len(delta) THEN [closure |-> cl, stack |-> st]
    ELSE IF delta[i][1] = cur /\ delta[i][2] = <<"&">> /\ Unseen(delta[i][3], cl)
         THEN ScanDeltaOnce(cur, i + 1, cl \cup {delta[i][3]}, st)
         ELSE ScanDeltaOnce(cur, i + 1, cl, st)

\* `for origin, sym, dest in delta:` of epsilon_closure from transition i on,
\* for the state popped: the closure and the stack it leaves.
RECURSIVE ScanDelta(_, _, _, _)
ScanDelta(cur, i, cl, st) ==
    IF i > Len(delta) THEN [closure |-> cl, stack |-> st]
    ELSE IF delta[i][1] = cur /\ delta[i][2] = <<"&">> /\ Unseen(delta[i][3], cl)
         THEN ScanDelta(cur, i + 1, cl \cup {delta[i][3]}, Append(st, delta[i][3]))
         ELSE ScanDelta(cur, i + 1, cl, st)

InClosure == pc \in {"initial_closure", "next_closure"}

\* convert_to_dfa is called: epsilon_closure({initial_state}) starts.
ConvertCall ==
    /\ pc = "loaded"
    /\ closure' = {initial_state}
    /\ stack' = <<initial_state>>
    /\ pc' = "initial_closure"
    /\ UNCHANGED <<lines, state, error, autoVars, initial_closure, queue, visited,
                   new_states, new_delta, new_final_states, new_initial_state,
                   current_closure, sym_idx, procVars>>

\* One turn of `while stack:` in epsilon_closure.
ClosureStep ==
    /\ InClosure
    /\ stack # <<>>
    /\ LET cur == stack[Len(stack)]
           r   == ScanDelta(cur, 1, closure, SubSeq(stack, 1, Len(stack) - 1))
       IN  /\ closure' = r.closure
           /\ stack' = r.stack
    /\ UNCHANGED <<lines, state, pc, error, autoVars, initial_closure, queue, visited,
                   new_states, new_delta, new_final_states, new_initial_state,
                   current_closure, sym_idx, procVars>>

\* epsilon_closure({initial_state}) returns; the locals are set up.
InitialClosureReturn ==
    /\ pc = "initial_closure"
    /\ stack = <<>>
    /\ initial_closure' = closure
    /\ queue' = <<closure>>
    /\ visited' = <<>>
    /\ new_states' = <<>>
    /\ new_delta' = <<>>
    /\ new_final_states' = <<>>
    /\ pc' = "while_queue"
    /\ UNCHANGED <<lines, state, error, autoVars, closure, stack, new_initial_state,
                   current_closure, sym_idx, procVars>>

\* No test of the visited list: every closure counts as new.
NeverVisited(cl, vis) == TRUE

\* `current_closure not in visited` / `next_closure not in visited`
NotVisited(cl, vis) == cl \notin Range(vis)

\* The test inverted: a closure is queued when it was already visited.
EnqueueVisited(q, cl, vis) == IF NotVisited(cl, vis) THEN q ELSE Append(q, cl)

\* `if next_closure not in visited: queue.append(next_closure)`
Enqueue(q, cl, vis) == IF NotVisited(cl, vis) THEN Append(q, cl) ELSE q

\* Where the `for symbol in alphabet` loop stands at position i.
ForSymbol(i) == IF i > Len(alphabet) THEN "while_queue" ELSE "for_symbol"

\* One turn of `while queue:` up to the `for symbol in alphabet` loop.
Dequeue ==
    /\ pc = "while_queue"
    /\ queue # <<>>
    /\ LET cur == Head(queue)
           current_str == state_to_str(cur)
       IN  /\ current_closure' = cur
           /\ queue' = Tail(queue)
           /\ IF NotVisited(cur, visited)
              THEN /\ visited' = Append(visited, cur)
                   /\ new_states' = Append(new_states, current_str)
                   /\ new_final_states' =
                          IF cur \cap Range(final_states) # {}
                          THEN Append(new_final_states, current_str)
                          ELSE new_final_states
                   /\ sym_idx' = 1
                   /\ pc' = ForSymbol(1)
              ELSE /\ UNCHANGED <<visited, new_states, new_final_states, sym_idx>>
                   /\ pc' = "while_queue"
    /\ UNCHANGED <<lines, state, error, autoVars, closure, stack, initial_closure,
                   new_delta, new_initial_state, procVars>>

\* `epsilon_closure(find_transitions(current_closure, symbol))` starts: the
\* stack is list(states_set), in whatever order the set is iterated.
SymbolCall ==
    /\ pc = "for_symbol"
    /\ LET found == find_transitions(current_closure, alphabet[sym_idx])
       IN  /\ closure' = found
           /\ stack' \in Orders(found)
    /\ pc' = "next_closure"
    /\ UNCHANGED <<lines, state, error, autoVars, initial_closure, queue, visited,
                   new_states, new_delta, new_final_states, new_initial_state,
                   current_closure, sym_idx, procVars>>

\* epsilon_closure returns next_closure; the rest of the loop body.
SymbolReturn ==
    /\ pc = "next_closure"
    /\ stack = <<>>
    /\ IF closure # {}
       THEN /\ new_delta' = Append(new_delta,
                    <<state_to_str(current_closure), alphabet[sym_idx],
                      state_to_str(closure)>>)
            /\ queue' = Enqueue(queue, closure, visited)
       ELSE UNCHANGED <<new_delta, queue>>
    /\ sym_idx' = sym_idx + 1
    /\ pc' = ForSymbol(sym_idx + 1)
    /\ UNCHANGED <<lines, state, error, autoVars, closure, stack, initial_closure,
                   visited, new_states, new_final_states, new_initial_state,
                   current_closure, procVars>>

\* The conversion is done in place: the result is written over the input.
ConvertReturnInPlace ==
    /\ pc = "while_queue"
    /\ queue = <<>>
    /\ new_initial_state' = state_to_str(initial_closure)
    /\ states' = new_states
    /\ delta' = new_delta
    /\ initial_state' = state_to_str(initial_closure)
    /\ final_states' = new_final_states
    /\ pc' = "converted"
    /\ UNCHANGED <<lines, state, error, alphabet, closure, stack,
                   initial_closure, queue, visited, new_states, new_delta,
                   new_final_states, current_closure, sym_idx, procVars>>

\* The queue is empty: convert_to_dfa returns.
ConvertReturn ==
    /\ pc = "while_queue"
    /\ queue = <<>>
    /\ new_initial_state' = state_to_str(initial_closure)
    /\ pc' = "converted"
    /\ UNCHANGED <<lines, state, error, autoVars, closure, stack, initial_closure,
                   queue, visited, new_states, new_delta, new_final_states,
                   current_closure, sym_idx, procVars>>

----------------------------------------------------------------------------
(* process.                                                                *)

NoAutomaton ==
    [states |-> <<>>, alphabet |-> <<>>, delta |-> <<>>,
     initial_state |-> <<>>, final_states |-> <<>>]

\* Only the first character is tested.
HasInvalidFirstChar(word, alph) == word # <<>> /\ <<word[1]>> \notin Range(alph)

\* `any(char not in alphabet for char in word)`: a character is in the
\* alphabet when a symbol of the list is that one-character string.
HasInvalidChar(word, alph) == \E i \in DOMAIN word : <<word[i]>> \notin Range(alph)

\* The last transition that matches instead of the first (no `break`).
LastNextState(dlt, cur, symbol) ==
    LET hits == {i \in DOMAIN dlt : dlt[i][1] = cur /\ dlt[i][2] = <<symbol>>}
    IN  IF hits = {} THEN <<>>
        ELSE dlt[CHOOSE i \in hits : \A k \in hits : i >= k][3]

\* A transition labelled '&' is taken on any character.
NextStateOrEpsilon(dlt, cur, symbol) ==
    LET hits == {i \in DOMAIN dlt : /\ dlt[i][1] = cur
                                    /\ dlt[i][2] \in {<<symbol>>, <<"&">>}}
    IN  IF hits = {} THEN <<>>
        ELSE dlt[CHOOSE i \in hits : \A k \in hits : i <= k][3]

\* `for origin, sym, dest in delta: if origin == current_state and
\* sym == symbol: next_state = dest; break`: the destination found, and the
\* empty string when next_state is still None (`if next_state:` takes None
\* and the empty string alike).
NextState(dlt, cur, symbol) ==
    LET hits == {i \in DOMAIN dlt : dlt[i][1] = cur /\ dlt[i][2] = <<symbol>>}
    IN  IF hits = {} THEN <<>>
        ELSE dlt[CHOOSE i \in hits : \A k \in hits : i <= k][3]

\* The verdict is written over every word stored so far.
StoreOverAll(res, word, verdict) == [w \in DOMAIN res \cup {word} |-> verdict]

\* `results[word] = verdict`
Store(res, word, verdict) ==
    [w \in DOMAIN res \cup {word} |-> IF w = word THEN verdict ELSE res[w]]

\* The run alone decides: the final states are not looked at.
VerdictOfRun(ok, cur, finals) == IF ok THEN "ACEITA" ELSE "REJEITA"

\* The verdict of the word just run.
Verdict(ok, cur, finals) ==
    IF ok /\ cur \in Range(finals) THEN "ACEITA" ELSE "REJEITA"

\* process(a, ws) is called.
ProcessCall(a, ws) ==
    /\ automaton' = a
    /\ words' = ws
    /\ word_idx' = 1
    /\ results' = <<>>
    /\ pc' = "for_word"
    /\ UNCHANGED <<lines, state, error, autoVars, convVars, char_idx, current_state,
                   valid>>

\* `for word in words:` takes the next word: INVALIDA and on to the next one,
\* or the run starts in the initial state.
WordStart ==
    /\ pc = "for_word"
    /\ word_idx <= Len(words)
    /\ IF HasInvalidChar(words[word_idx], automaton.alphabet)
       THEN /\ results' = Store(results, words[word_idx], "INVALIDA")
            /\ word_idx' = word_idx + 1
            /\ UNCHANGED <<pc, current_state, valid, char_idx>>
       ELSE /\ current_state' = automaton.initial_state
            /\ valid' = TRUE
            /\ char_idx' = 1
            /\ pc' = "for_char"
            /\ UNCHANGED <<results, word_idx>>
    /\ UNCHANGED <<lines, state, error, autoVars, convVars, automaton, words>>

\* One turn of `for symbol in word:`.
CharStep ==
    /\ pc = "for_char"
    /\ char_idx <= Len(words[word_idx])
    /\ LET next_state == NextState(automaton.delta, current_state,
                                   words[word_idx][char_idx])
       IN  IF next_state # <<>>
           THEN /\ current_state' = next_state
                /\ char_idx' = char_idx + 1
                /\ UNCHANGED <<valid, pc>>
           ELSE /\ valid' = FALSE
                /\ pc' = "verdict"
                /\ UNCHANGED <<current_state, char_idx>>
    /\ UNCHANGED <<lines, state, error, autoVars, convVars, automaton, words,
                   word_idx, results>>

\* The loop over the characters is over: the verdict is stored.
WordEnd ==
    /\ \/ pc = "for_char" /\ char_idx > Len(words[word_idx])
       \/ pc = "verdict"
    /\ results' = Store(results, words[word_idx],
                        Verdict(valid, current_state, automaton.final_states))
    /\ word_idx' = word_idx + 1
    /\ pc' = "for_word"
    /\ UNCHANGED <<lines, state, error, autoVars, convVars, automaton, words,
                   char_idx, current_state, valid>>

\* `return results`
ProcessReturn ==
    /\ pc = "for_word"
    /\ word_idx > Len(words)
    /\ pc' = "processed"
    /\ UNCHANGED <<lines, state, error, autoVars, convVars, procVars>>

\* The automaton load_automata returned and the one convert_to_dfa returns.
Loaded ==
    [states |-> states, alphabet |-> alphabet, delta |-> delta,
     initial_state |-> initial_state, final_states |-> final_states]

Converted ==
    [states |-> new_states, alphabet |-> alphabet, delta |-> new_delta,
     initial_state |-> new_initial_state, final_states |-> new_final_states]

----------------------------------------------------------------------------
(* The files, the words and the specifications.                            *)

StateNames == {<<"p">>, <<"q">>, <<"p", ",", "q">>}
Symbols == {<<"a">>, <<"&">>}
Chars == {"a", "&"}

Words == SeqsUpTo(Chars, MaxWordLen)
WordLists == SeqsUpTo(Words, MaxWords)

\* ls is a file of a header drawn from these lines and at most n further
\* lines.
FileOf(ls, alphaLines, stateLines, finalLines, initLines, otherLines, n) ==
    \E a \in alphaLines, s \in stateLines, f \in finalLines, i \in initLines,
       t \in SeqsUpTo(otherLines, n) :
        ls = <<a, s, f, i>> \o t

TransitionLines(names) ==
    {<<o, y, d>> : o \in names, y \in Symbols, d \in names}

\* Files over three states, one of them with a comma in its name.
ConvFile(ls) ==
    FileOf(ls, SeqsUpTo(Symbols, MaxAlpha),
           {<<<<"p">>, <<"q">>, <<"p", ",", "q">>>>},
           {sorted(S) : S \in SUBSET StateNames},
           {<<s>> : s \in StateNames},
           TransitionLines(StateNames),
           MaxTrans)

\* The same files with one state or three and few final states: the final
\* states play no part in how long a conversion runs.
TermFile(ls) ==
    FileOf(ls, SeqsUpTo(Symbols, MaxAlpha),
           {<<<<"p">>>>, <<<<"p">>, <<"q">>, <<"p", ",", "q">>>>},
           {<<>>, <<<<"p">>>>},
           {<<s>> : s \in StateNames},
           TransitionLines(StateNames),
           MaxTrans)

\* Files of one more transition over the alphabet 'a': enough for a closure
\* seeded from two states one of which has an '&' transition out of the seed.
SeedFile(ls) ==
    FileOf(ls, {<<<<"a">>>>},
           {<<<<"p">>, <<"q">>, <<"p", ",", "q">>>>},
           {<<>>, <<<<"q">>>>},
           {<<s>> : s \in StateNames},
           TransitionLines(StateNames),
           MaxSeedTrans)

\* Files over two states.
ProcFile(ls) ==
    FileOf(ls, SeqsUpTo(Symbols, MaxAlpha),
           {<<<<"p">>, <<"q">>>>},
           {sorted(S) : S \in SUBSET {<<"p">>, <<"q">>}},
           {<<<<"p">>>>, <<<<"q">>>>},
           TransitionLines({<<"p">>, <<"q">>}),
           MaxTrans)

\* Files with too few lines, lines of the wrong number of tokens and names
\* that are not declared, beside the valid ones.
LoadFile(ls) ==
    \E a \in {<<>>, <<<<"a">>>>},
       s \in {<<<<"p">>>>, <<<<"p">>, <<"q">>>>},
       f \in {<<>>, <<<<"p">>>>, <<<<"q">>>>, <<<<"p">>, <<"p">>>>},
       i \in {<<>>, <<<<"p">>>>, <<<<"q">>>>, <<<<"p">>, <<"q">>>>},
       t \in SeqsUpTo(TransitionLines({<<"p">>, <<"q">>})
                          \cup {<<<<"p">>, <<"b">>, <<"p">>>>,
                                <<>>, <<<<"p">>, <<"a">>>>,
                                <<<<"p">>, <<"a">>, <<"p">>, <<"p">>>>},
                      MaxTrans),
       k \in 0..4 :
        ls = IF k = 4 THEN <<a, s, f, i>> \o t ELSE SubSeq(<<a, s, f, i>>, 1, k)

InitRest ==
    /\ pc = "file"
    /\ error = ""
    /\ states = <<>> /\ alphabet = <<>> /\ delta = <<>>
    /\ initial_state = <<>> /\ final_states = <<>>
    /\ state = <<>>
    /\ closure = {} /\ stack = <<>> /\ initial_closure = {}
    /\ queue = <<>> /\ visited = <<>>
    /\ new_states = <<>> /\ new_delta = <<>> /\ new_final_states = <<>>
    /\ new_initial_state = <<>>
    /\ current_closure = {}
    /\ sym_idx = 1
    /\ automaton = NoAutomaton
    /\ words = <<>> /\ word_idx = 1 /\ char_idx = 1
    /\ current_state = <<>> /\ valid = TRUE
    /\ results = <<>>

\* process(convert_to_dfa(automaton), [w])
ProcessDfa ==
    /\ pc = "converted"
    /\ \E w \in Words : ProcessCall(Converted, <<w>>)

\* process(automaton, words)
ProcessLoaded ==
    /\ pc = "loaded"
    /\ \E ws \in WordLists : ProcessCall(Loaded, ws)

Convert ==
    \/ ConvertCall
    \/ ClosureStep
    \/ InitialClosureReturn
    \/ Dequeue
    \/ SymbolCall
    \/ SymbolReturn
    \/ ConvertReturn

Process ==
    \/ WordStart
    \/ CharStep
    \/ WordEnd
    \/ ProcessReturn

\* A file is loaded and converted, and a word is run on the result.
Init == ConvFile(lines) /\ InitRest

Next == Load \/ Convert \/ ProcessDfa \/ Process

Spec == Init /\ [][Next]_vars

\* A file is loaded and converted; the call runs on until it returns.
FairNext == Load \/ Convert

FairInit == TermFile(lines) /\ InitRest

FairSpec == FairInit /\ [][FairNext]_vars /\ WF_vars(FairNext)

\* A file is loaded and converted, every closure seeded in every order.
SeedInit == SeedFile(lines) /\ InitRest

SeedNext == Load \/ Convert

SeedSpec == SeedInit /\ [][SeedNext]_vars

\* A file is loaded and handle_closure is called on one of its states.
ClosureSpec == Init /\ [][Load \/ HandleClosure]_vars

\* A call has returned: its locals and its result are dropped, and the
\* automaton that was loaded is there for another call.
NextCall ==
    /\ pc \in {"converted", "processed"}
    /\ pc' = "loaded"
    /\ state' = <<>>
    /\ closure' = {} /\ stack' = <<>> /\ initial_closure' = {}
    /\ queue' = <<>> /\ visited' = <<>>
    /\ new_states' = <<>> /\ new_delta' = <<>> /\ new_final_states' = <<>>
    /\ new_initial_state' = <<>>
    /\ current_closure' = {}
    /\ sym_idx' = 1
    /\ automaton' = NoAutomaton
    /\ words' = <<>> /\ word_idx' = 1 /\ char_idx' = 1
    /\ current_state' = <<>> /\ valid' = TRUE
    /\ results' = <<>>
    /\ UNCHANGED <<lines, error, autoVars>>

\* A file is loaded, and process and convert_to_dfa are called on it, and
\* process on what convert_to_dfa returned, any number of times in any order.
CallNext == Load \/ Convert \/ ProcessLoaded \/ ProcessDfa \/ Process \/ NextCall

CallInit == ProcFile(lines) /\ InitRest

CallSpec == CallInit /\ [][CallNext]_vars

\* A file is loaded and a list of words is run on it.
ProcInit == ProcFile(lines) /\ InitRest

ProcNext == Load \/ ProcessLoaded \/ Process

ProcSpec == ProcInit /\ [][ProcNext]_vars

\* A file is loaded.
LoadInit == LoadFile(lines) /\ InitRest

LoadSpec == LoadInit /\ [][Load]_vars

----------------------------------------------------------------------------
(* The claims about convert_to_dfa.                                        *)

\* The configurations <<state, characters consumed>> an automaton reaches on
\* a word along any path: a transition labelled '&' is free, a transition
\* labelled with the next character consumes it.
RECURSIVE Configurations(_, _, _)
Configurations(a, w, C) ==
    LET trs  == Range(a.delta)
        free == {<<x[2][3], x[1][2]>> :
                    x \in {y \in C \X trs : /\ y[2][1] = y[1][1]
                                            /\ y[2][2] = <<"&">>}}
        read == {<<x[2][3], x[1][2] + 1>> :
                    x \in {y \in C \X trs : /\ y[2][1] = y[1][1]
                                            /\ y[1][2] < Len(w)
                                            /\ y[2][2] = <<w[y[1][2] + 1]>>}}
        more == C \cup free \cup read
    IN  IF more = C THEN C ELSE Configurations(a, w, more)

NfaAccepts(a, w) ==
    \E c \in Configurations(a, w, {<<a.initial_state, 0>>}) :
        c[2] = Len(w) /\ c[1] \in Range(a.final_states)

\* C1: for every loaded automaton A and every word w over its alphabet,
\* process(convert_to_dfa(A), [w])[w] is ACEITA when some path of A consumes w
\* and ends in a final state, and REJEITA otherwise.
LanguageEquivalence ==
    (pc = "processed" /\ ~HasInvalidChar(words[1], alphabet))
        => results[words[1]] =
               IF NfaAccepts(Loaded, words[1]) THEN "ACEITA" ELSE "REJEITA"

\* C2: the transitions convert_to_dfa returns carry no '&' and hold at most
\* one triple for every pair of an origin and a symbol.
OutputDeterministic ==
    pc = "converted" =>
        /\ \A i \in DOMAIN new_delta : new_delta[i][2] # <<"&">>
        /\ \A i, j \in DOMAIN new_delta :
               (new_delta[i][1] = new_delta[j][1] /\ new_delta[i][2] = new_delta[j][2])
                   => i = j

\* C3: the automaton convert_to_dfa returns satisfies the loader's tests: its
\* initial state and its final states are among its states, every
\* transition's origin and destination are among its states and every
\* transition's symbol is in the alphabet.
OutputValid ==
    pc = "converted" =>
        /\ new_initial_state \in Range(new_states)
        /\ Range(new_final_states) \subseteq Range(new_states)
        /\ \A i \in DOMAIN new_delta :
               /\ new_delta[i][1] \in Range(new_states)
               /\ new_delta[i][3] \in Range(new_states)
               /\ new_delta[i][2] \in Range(alphabet)

\* A conversion that named a closure as a destination before it was dequeued:
\* a transition leads to a state recorded after its origin.
OutputValidWitness ==
    /\ pc = "converted"
    /\ \E i \in DOMAIN new_delta : \E j, k \in DOMAIN new_states :
           /\ new_states[j] = new_delta[i][1]
           /\ new_states[k] = new_delta[i][3]
           /\ j < k
    /\ new_final_states # <<>>

\* 2^n
RECURSIVE Pow2(_)
Pow2(n) == IF n = 0 THEN 1 ELSE 2 * Pow2(n - 1)

\* C10: convert_to_dfa returns: every epsilon_closure call empties its stack
\* and the queue of closures becomes empty; the states it records are never
\* more than 2^|states|.
ConvertTerminates ==
    /\ (pc = "loaded") ~> (pc = "converted")
    /\ [](InClosure => <>(stack = <<>>))
    /\ [](Len(new_states) <= Pow2(Cardinality(Range(states))))

\* A conversion that returned although an '&' transition leads from a state to
\* itself and a transition of the result does so too.
ConvertTerminatesWitness ==
    /\ pc = "converted"
    /\ \E i \in DOMAIN delta : delta[i][2] = <<"&">> /\ delta[i][1] = delta[i][3]
    /\ \E i \in DOMAIN new_delta : new_delta[i][1] = new_delta[i][3]
    /\ Len(new_states) = 2

----------------------------------------------------------------------------
(* The claims about process.                                               *)

\* The place in the list of the first transition from q on the character c,
\* 0 when there is none.
RECURSIVE FirstFrom(_, _, _, _)
FirstFrom(dlt, q, c, i) ==
    IF i > Len(dlt) THEN 0
    ELSE IF dlt[i][1] = q /\ dlt[i][2] = <<c>> THEN i
    ELSE FirstFrom(dlt, q, c, i + 1)

\* The run of a word from state q with k characters consumed, following the
\* first transition each time: where it ends, and whether at a dead end.
RECURSIVE RunFrom(_, _, _, _)
RunFrom(a, w, q, k) ==
    IF k = Len(w) THEN [state |-> q, consumed |-> k, dead |-> FALSE]
    ELSE LET i == FirstFrom(a.delta, q, w[k + 1], 1)
         IN  IF i = 0 THEN [state |-> q, consumed |-> k, dead |-> TRUE]
             ELSE RunFrom(a, w, a.delta[i][3], k + 1)

Run(a, w) == RunFrom(a, w, a.initial_state, 0)

InAlphabet(a, w) ==
    \A i \in DOMAIN w : \E j \in DOMAIN a.alphabet : a.alphabet[j] = <<w[i]>>

RunVerdict(a, w) ==
    IF ~Run(a, w).dead /\ \E j \in DOMAIN a.final_states :
                              a.final_states[j] = Run(a, w).state
    THEN "ACEITA" ELSE "REJEITA"

\* The words of the list whose verdict is stored.
StoredWords == {words[k] : k \in 1..(word_idx - 1)}

\* C4: on a word over the alphabet, process follows from the initial state
\* the first transition in list order for each character; at a character
\* with no transition it stops, consumes nothing more and says REJEITA;
\* otherwise it says ACEITA when the state reached is final, REJEITA when not.
SimulatorVerdict ==
    /\ \A w \in StoredWords : InAlphabet(automaton, w) => results[w] = RunVerdict(automaton, w)
    /\ pc = "for_char" =>
           LET r == Run(automaton, SubSeq(words[word_idx], 1, char_idx - 1))
           IN  valid /\ ~r.dead /\ current_state = r.state
    /\ pc = "verdict" =>
           LET r == Run(automaton, words[word_idx])
           IN  ~valid /\ r.dead /\ char_idx = r.consumed + 1 /\ current_state = r.state

\* A word accepted along the first of two transitions from the initial state
\* on its first character, the second of which leads elsewhere.
SimulatorVerdictWitness ==
    /\ pc = "processed"
    /\ Len(words) = 1 /\ Len(words[1]) = 2
    /\ results[words[1]] = "ACEITA"
    /\ Len(automaton.delta) = 2
    /\ automaton.delta[1][1] = automaton.initial_state
    /\ automaton.delta[2][1] = automaton.initial_state
    /\ automaton.delta[1][2] = automaton.delta[2][2]
    /\ automaton.delta[1][3] # automaton.delta[2][3]

\* C5: the verdict of a word is INVALIDA exactly when one of its characters
\* is not in the alphabet, whatever the transitions are, and no transition is
\* looked up for such a word.
InvalidShortCircuit ==
    /\ \A w \in StoredWords : results[w] = "INVALIDA" <=> ~InAlphabet(automaton, w)
    /\ pc \in {"for_char", "verdict"} => InAlphabet(automaton, words[word_idx])

\* A word said INVALIDA for its second character, whose first character has
\* no transition from the initial state.
InvalidShortCircuitWitness ==
    /\ pc = "processed"
    /\ Len(words) = 1 /\ Len(words[1]) = 2
    /\ results[words[1]] = "INVALIDA"
    /\ InAlphabet(automaton, <<words[1][1]>>)
    /\ FirstFrom(automaton.delta, automaton.initial_state, words[1][1], 1) = 0

\* C6: the empty word is ACEITA when the initial state is a final state and
\* REJEITA when it is not; '&' transitions from the initial state do not count.
EmptyWordVerdict ==
    <<>> \in StoredWords =>
        results[<<>>] = IF automaton.initial_state \in Range(automaton.final_states)
                        THEN "ACEITA" ELSE "REJEITA"

\* The empty word said REJEITA although an '&' transition leads from the
\* initial state to a final state.
EmptyWordVerdictWitness ==
    /\ <<>> \in StoredWords
    /\ results[<<>>] = "REJEITA"
    /\ \E i \in DOMAIN automaton.delta :
           /\ automaton.delta[i][1] = automaton.initial_state
           /\ automaton.delta[i][2] = <<"&">>
           /\ automaton.delta[i][3] \in Range(automaton.final_states)

\* What process(a, [w])[w] is: the verdict of the word on its own.
Alone(a, w) == IF InAlphabet(a, w) THEN RunVerdict(a, w) ELSE "INVALIDA"

\* C7: when process returns, every word of the list has a verdict, and it is
\* the verdict the word gets on its own, whatever the other words of the list
\* are and whatever became of them.
PerWordIsolation ==
    pc = "processed" =>
        /\ DOMAIN results = Range(words)
        /\ \A w \in Range(words) : results[w] = Alone(automaton, w)

\* A list whose first word is invalid and whose second word is accepted after
\* two transitions.
PerWordIsolationWitness ==
    /\ pc = "processed"
    /\ Len(words) = 2
    /\ results[words[1]] = "INVALIDA"
    /\ results[words[2]] = "ACEITA"
    /\ Len(words[2]) = 2

----------------------------------------------------------------------------
(* The claims about load_automata.                                         *)

\* A file of four lines or more that names an undeclared state as initial,
\* final, origin or destination, or a symbol that is neither declared nor '&'.
BadReference(ls) ==
    /\ Len(ls) >= 4
    /\ \/ \A j \in DOMAIN ls[2] : ls[2][j] # RawLine(ls[4])
       \/ \E i \in DOMAIN ls[3] : \A j \in DOMAIN ls[2] : ls[2][j] # ls[3][i]
       \/ \E n \in 5..Len(ls) :
              /\ Len(ls[n]) = 3
              /\ \/ \A j \in DOMAIN ls[2] : ls[2][j] # ls[n][1]
                 \/ \A j \in DOMAIN ls[2] : ls[2][j] # ls[n][3]
                 \/ /\ ls[n][2] # <<"&">>
                    /\ \A j \in DOMAIN ls[1] : ls[1][j] # ls[n][2]

\* C8: load_automata raises and returns nothing for a file with a bad
\* reference, and every automaton it returns has its initial state and final
\* states among its states and every transition between its states on a
\* symbol of the alphabet or '&'.
LoaderRejectsBadReferences ==
    /\ (pc # "file" /\ BadReference(lines)) =>
           pc = "raised" /\ error # "" /\ Loaded = NoAutomaton
    /\ pc = "loaded" =>
           /\ initial_state \in Range(states)
           /\ Range(final_states) \subseteq Range(states)
           /\ \A i \in DOMAIN delta :
                  /\ delta[i][1] \in Range(states)
                  /\ delta[i][3] \in Range(states)
                  /\ delta[i][2] \in Range(alphabet) \cup {<<"&">>}

\* A file refused for the destination of its second transition alone.
LoaderRejectsBadReferencesWitness ==
    /\ pc = "raised"
    /\ error = "Estado na transicao invalido"
    /\ Len(lines) = 6
    /\ lines[6][1] \in Range(lines[2])
    /\ lines[6][3] \notin Range(lines[2])
    /\ load_automata(SubSeq(lines, 1, 5)).raised = ""

\* C9: a file of exactly the four header lines whose initial and final states
\* are declared loads, as an automaton with no transition.
EmptyTransitionSectionLoads ==
    (/\ pc # "file"
     /\ Len(lines) = 4
     /\ RawLine(lines[4]) \in Range(lines[2])
     /\ Range(lines[3]) \subseteq Range(lines[2]))
        => pc = "loaded" /\ delta = <<>>

----------------------------------------------------------------------------
(* The subset construction, computed without a stack and without a queue.  *)

\* The states reached from S by zero or more '&' transitions.
RECURSIVE EpsClose(_)
EpsClose(S) ==
    LET more == S \cup {t[3] : t \in {x \in Range(delta) : x[1] \in S /\ x[2] = <<"&">>}}
    IN  IF more = S THEN S ELSE EpsClose(more)

\* The closed set reached from the closed set C on a symbol.
Target(C, a) == EpsClose(find_transitions(C, a))

\* The closed sets reached from those of W, W included.
RECURSIVE Subsets(_)
Subsets(W) ==
    LET more == W \cup ({Target(C, alphabet[i]) : C \in W, i \in DOMAIN alphabet} \ {{}})
    IN  IF more = W THEN W ELSE Subsets(more)

Reachable == Subsets({EpsClose({initial_state})})

\* C11: what convert_to_dfa returns does not depend on the order in which a
\* closure's stack is seeded and popped: whatever the order, the states, the
\* final states, the transitions and the initial state are those of the
\* subset construction of the input.
OrderIndependent ==
    pc = "converted" =>
        /\ Range(new_states) = {state_to_str(C) : C \in Reachable}
        /\ Range(new_final_states) =
               {state_to_str(C) : C \in {D \in Reachable : D \cap Range(final_states) # {}}}
        /\ Range(new_delta) =
               {<<state_to_str(x[1]), alphabet[x[2]], state_to_str(Target(x[1], alphabet[x[2]]))>> :
                   x \in {y \in Reachable \X DOMAIN alphabet :
                              Target(y[1], alphabet[y[2]]) # {}}}
        /\ new_initial_state = state_to_str(EpsClose({initial_state}))

\* A conversion in which a closure was seeded from two states, one of which
\* has an '&' transition to a state that is not in the seed.
OrderIndependentWitness ==
    /\ pc = "converted"
    /\ \E i \in DOMAIN visited : \E j \in DOMAIN alphabet :
           LET seed == find_transitions(visited[i], alphabet[j])
           IN  /\ Cardinality(seed) = 2
               /\ EpsClose(seed) # seed

\* No '&' transition and at most one transition for an origin and a symbol.
IsDeterministic(dlt) ==
    /\ \A i \in DOMAIN dlt : dlt[i][2] # <<"&">>
    /\ \A i, j \in DOMAIN dlt :
           (dlt[i][1] = dlt[j][1] /\ dlt[i][2] = dlt[j][2]) => i = j

\* C12: for an automaton with no '&' transition and at most one transition
\* for an origin and a symbol, and every word, of the alphabet or not,
\* process(convert_to_dfa(D), [w])[w] is process(D, [w])[w].
DeterministicPreserved ==
    (pc = "processed" /\ IsDeterministic(delta))
        => results[words[1]] = Alone(Loaded, words[1])

\* A deterministic automaton of two transitions whose conversion accepts a
\* word of two characters through two different states.
DeterministicPreservedWitness ==
    /\ pc = "processed"
    /\ IsDeterministic(delta)
    /\ Len(delta) = 2
    /\ Len(words[1]) = 2
    /\ results[words[1]] = "ACEITA"
    /\ delta[1][3] # delta[2][3]
    /\ Run(automaton, <<words[1][1]>>).state # Run(automaton, words[1]).state

\* C13: handle_closure(s, delta) returns the states reached from s by zero or
\* more '&' transitions, those two or more transitions away included: the set
\* epsilon_closure({s}) returns.
HandleClosureIsClosure ==
    pc = "closed" => closure = EpsClose({state})

\* C14: no two different closures recorded as visited have the same canonical
\* name, and no name is twice in the list of states convert_to_dfa returns.
NamesIdentifyStates ==
    pc = "converted" =>
        /\ \A i, j \in DOMAIN visited :
               state_to_str(visited[i]) = state_to_str(visited[j]) => i = j
        /\ \A i, j \in DOMAIN new_states : new_states[i] = new_states[j] => i = j

\* C15: a state convert_to_dfa returns is among the final states it returns
\* exactly when its closure holds a final state of the input; the initial
\* state returned is final exactly when the epsilon closure of the input's
\* initial state holds a final state of the input.
FinalMarking ==
    pc = "converted" =>
        /\ Range(new_final_states) \subseteq Range(new_states)
        /\ \A i \in DOMAIN new_states :
               new_states[i] \in Range(new_final_states)
                   <=> visited[i] \cap Range(final_states) # {}
        /\ new_initial_state \in Range(new_final_states)
               <=> EpsClose({initial_state}) \cap Range(final_states) # {}

\* The states reached from those of S along the transitions of trs, on any
\* symbol.
RECURSIVE Descendants(_, _)
Descendants(S, trs) ==
    LET more == S \cup {t[3] : t \in {x \in trs : x[1] \in S}}
    IN  IF more = S THEN S ELSE Descendants(more, trs)

\* C16: every state convert_to_dfa returns is reached from the initial state
\* it returns along the transitions it returns; every one of them names a
\* closure that is not empty and is closed under '&' transitions; and a state
\* of the input that is not reached from the input's initial state is in no
\* closure.
OnlyReachableSubsets ==
    pc = "converted" =>
        /\ Range(new_states) \subseteq Descendants({new_initial_state}, Range(new_delta))
        /\ Len(visited) = Len(new_states)
        /\ \A i \in DOMAIN visited :
               /\ new_states[i] = state_to_str(visited[i])
               /\ visited[i] # {}
               /\ EpsClose(visited[i]) = visited[i]
               /\ visited[i] \subseteq Descendants({initial_state}, Range(delta))

\* A conversion that returned two states, one of them the name of a closure
\* of two states, while a state of the input is not reached from the initial
\* state.
OnlyReachableSubsetsWitness ==
    /\ pc = "converted"
    /\ Len(new_states) = 2
    /\ Range(states) \ Descendants({initial_state}, Range(delta)) # {}
    /\ \E i \in DOMAIN visited : Cardinality(visited[i]) = 2

IsSymbol(t) == t[2] # <<"&">>

\* The automaton with its '&' transitions removed.
WithoutEpsilon(a) == [a EXCEPT !.delta = SelectSeq(a.delta, IsSymbol)]

\* C17: when '&' is not in the alphabet, the verdict process gives a word is
\* the verdict of the word on the automaton with every '&' transition
\* removed, and the state it stands in after each character is the state of
\* that run: a word the automaton accepts only through an '&' transition is
\* REJEITA.
NoEpsilonStep ==
    <<"&">> \notin Range(automaton.alphabet) =>
        /\ \A w \in StoredWords : results[w] = Alone(WithoutEpsilon(automaton), w)
        /\ pc = "for_char" =>
               current_state = Run(WithoutEpsilon(automaton),
                                   SubSeq(words[word_idx], 1, char_idx - 1)).state

\* The word 'a' said REJEITA by an automaton whose initial state has an '&'
\* transition to a state from which 'a' leads to a final state.
NoEpsilonStepWitness ==
    /\ pc = "processed"
    /\ <<"&">> \notin Range(automaton.alphabet)
    /\ words = <<<<"a">>>>
    /\ results[<<"a">>] = "REJEITA"
    /\ NfaAccepts(automaton, <<"a">>)
    /\ \E i, j \in DOMAIN automaton.delta :
           /\ automaton.delta[i][1] = automaton.initial_state
           /\ automaton.delta[i][2] = <<"&">>
           /\ automaton.delta[i][3] # automaton.initial_state
           /\ automaton.delta[j] = <<automaton.delta[i][3], <<"a">>, automaton.delta[j][3]>>
           /\ automaton.delta[j][3] \in Range(automaton.final_states)

\* What load_automata returned for the file.
Returned ==
    LET r == load_automata(lines)
    IN  [states |-> r.states, alphabet |-> r.alphabet, delta |-> r.transitions,
         initial_state |-> r.initial_state, final_states |-> r.final_states]

\* C18: process and convert_to_dfa leave the automaton they are given as it
\* is: at every point of every sequence of calls the loaded automaton is what
\* load_automata returned, the automaton process runs on is the one it was
\* called with, and the automaton convert_to_dfa returns has the alphabet of
\* its input.
InputUnchanged ==
    /\ pc \notin {"file", "raised"} => Loaded = Returned
    /\ pc \in {"for_word", "for_char", "verdict", "processed"} =>
           automaton \in {Returned, Converted}
    /\ pc = "converted" => Converted.alphabet = Returned.alphabet

\* process has returned a verdict ACEITA on the automaton convert_to_dfa
\* returned, which is not the input: two calls were made in a row.
InputUnchangedWitness ==
    /\ pc = "processed"
    /\ automaton = Converted
    /\ Converted # Loaded
    /\ Len(new_delta) >= 2
    /\ Len(words[1]) = 2
    /\ results[words[1]] = "ACEITA"

====
